---- MODULE Spec2Model ----
(***************************************************************************)
(* Per-region mesh generation of the brainglobe atlas scripts              *)
(* allen_bbp_ccfv3a_entire_mouse_brain.py and demba_dev_mouse.py:          *)
(* flatten_structure_tree, retrieve_or_construct_meshes (labelling pass,   *)
(* mesh-creation loop, catalog pass) and                                   *)
(* filter_structures_not_present_in_annotation, followed by the call of    *)
(* the packaging routine.                                                  *)
(*                                                                         *)
(* get_structures_tree, Region and create_region_mesh are imported by the  *)
(* scripts from brainglobe_atlasapi.structure_tree_util and                *)
(* brainglobe_atlasapi.atlas_generation.mesh_utils; their bodies are       *)
(* modelled from sections 4.1, 4.3, 4.4 and 4.6 of the specification.      *)
(***************************************************************************)
EXTENDS Integers, Sequences, FiniteSets, Bags, TLC

\* ---------------------------------------------------------------- bounds
\* Region ids other than the root are 1..MaxChildId.
MaxChildId == 2
\* The annotation volume has NumVoxels voxels.
NumVoxels == 2
\* The pipeline is run at most MaxRuns times over the same meshes directory.
MaxRuns == 2
\* The worker pool of the concurrent mesh loop has NumWorkers workers.
NumWorkers == 2
\* ages the demba loop runs over, from FirstAge on (the script: 53)
NumAges == 2

\* ------------------------------------------------------ program constants
\* METADATA.root_id / ROOT_ID
ROOT_ID == 997
\* mesh_path.stat().st_size < 512
MinObjBytes == 512
\* largest value of numpy.int32
Int32Max == 2147483647
\* bytes of .obj text a mesh takes per voxel of its mask (abstraction of the
\* serialised size of the extracted surface: one isolated voxel gives a file
\* below the validity threshold, two voxels a file above it)
BytesPerVoxel == 384
\* demba: for age in range(4, 57)
FirstAge == 4
\* demba: if resolution != 25
MeshResolution == 25
\* allen: METADATA.resolution
METADATA_resolution == 25

\* ------------------------------------------------------------- universe
ChildIds == 1..MaxChildId
NodeIds == {ROOT_ID} \cup ChildIds
Voxels == 1..NumVoxels

\* A value stored in the annotation volume: lo + 2^32 * (IF wide THEN 1 ELSE 0).
\* The volume's dtype is whatever the file holds (nrrd.read, load_any), so a
\* value may need more than 32 bits.
Val(w, l) == [wide |-> w, lo |-> l]
IdVal(k) == Val(FALSE, k)
Background == Val(FALSE, 0)
\* 2^32 + 1: a non-zero label that is the id of no region
ForeignVal == Val(TRUE, 1)

\* ------------------------------------------------------------- helpers
Min(S) == CHOOSE m \in S : \A x \in S : m <= x

RECURSIVE SetToSeq(_)
SetToSeq(S) == IF S = {} THEN <<>>
               ELSE <<Min(S)>> \o SetToSeq(S \ {Min(S)})

Range(s) == {s[k] : k \in DOMAIN s}

Last(s) == s[Len(s)]

\* --------------------------------------------------- hierarchy (JSON tree)
\* The hierarchy file: a tree rooted at ROOT_ID; par maps every other node to
\* its parent.  A node's "children" list holds its children in ascending id.
RECURSIVE ReachesRoot(_, _, _)
ReachesRoot(par, n, fuel) ==
    IF n = ROOT_ID THEN TRUE
    ELSE IF fuel = 0 THEN FALSE
    ELSE ReachesRoot(par, par[n], fuel - 1)

Hierarchies ==
    UNION {{par \in [S -> S \cup {ROOT_ID}] :
               \A n \in S : ReachesRoot(par, n, Cardinality(S))} :
           S \in SUBSET ChildIds}

Children(par, n) == SetToSeq({c \in DOMAIN par : par[c] = n})

\* ------------------------------------------------ flatten_structure_tree
\* entry = {"id", "name", "acronym", "structure_id_path", "rgb_triplet"};
\* name, acronym and colour are copied from the node and play no part below.
RECURSIVE FlattenStructureTree(_, _, _)
RECURSIVE FlattenChildren(_, _, _)
FlattenStructureTree(par, node, structure_id_path) ==
    LET current_path == structure_id_path \o <<node>>
        entry == [id |-> node, structure_id_path |-> current_path]
    IN  <<entry>> \o FlattenChildren(par, Children(par, node), current_path)

FlattenChildren(par, kids, current_path) ==
    IF kids = <<>> THEN <<>>
    ELSE FlattenStructureTree(par, Head(kids), current_path)
         \o FlattenChildren(par, Tail(kids), current_path)

\* retrieve_structure_information: flatten the hierarchy from its root.
RetrieveStructureInformation(par) == FlattenStructureTree(par, ROOT_ID, <<>>)

\* A list with one record missing, as an externally supplied structure list
\* (demba_dev_mouse takes its list from another atlas) may be.
DropAt(s, k) == SubSeq(s, 1, k - 1) \o SubSeq(s, k + 1, Len(s))

StructureLists ==
    {RetrieveStructureInformation(par) : par \in Hierarchies}
    \cup UNION {{DropAt(RetrieveStructureInformation(par), k) :
                   k \in 1..(Cardinality(DOMAIN par) + 1)} :
                 par \in {p \in Hierarchies : DOMAIN p # {}}}

\* ------------------------------------------------- annotation volumes
ValueList == <<Background>> \o [k \in 1..MaxChildId |-> IdVal(k)]
             \o <<IdVal(ROOT_ID), ForeignVal>>

\* Nothing below depends on where a voxel lies, so volumes are taken up to a
\* permutation of their voxels.
AnnotationVolumes ==
    {[x \in Voxels |-> ValueList[g[x]]] :
        g \in {f \in [Voxels -> 1..Len(ValueList)] :
                 \A x, y \in Voxels : x < y => f[x] <= f[y]}}

\* ---------------------------------------------------------- file system
\* (every mesh written under one name)
SharedMeshPath(id) == [parent |-> "meshes", name |-> ROOT_ID]

\* meshes_dir_path / f'{s["id"]}.obj'
MeshPath(id) == [parent |-> "meshes", name |-> id]
Paths == {MeshPath(k) : k \in NodeIds}
NoFile == [exists |-> FALSE, size |-> 0, mtime |-> 0, data |-> {}]
\* A file left in the directory before the first run: written at time 0 from
\* data this run knows nothing of.
StaleFile(sz) == [exists |-> TRUE, size |-> sz, mtime |-> 0, data |-> {0}]
StaleSizes == {MinObjBytes}

\* (a directory made afresh at every run)
RecreateMeshesDir(fs) == [p \in DOMAIN fs |-> NoFile]

\* meshes_dir_path.mkdir(exist_ok=True) keeps what the directory holds
MakeMeshesDir(fs) == fs

\* what the meshes directory may hold before the first run
InitialDirs ==
    {[p \in Paths |-> NoFile]}
    \cup {[p \in Paths |-> IF p = q THEN StaleFile(sz) ELSE NoFile] :
            q \in Paths, sz \in StaleSizes}

\* ------------------------------------------------------ get_structures_tree
ParentOf(s) == IF Len(s.structure_id_path) > 1
               THEN s.structure_id_path[Len(s.structure_id_path) - 1]
               ELSE 0

RecordIds(structs) == {structs[k].id : k \in DOMAIN structs}

\* MalformedHierarchy: a record names a parent that is not in the list
MalformedHierarchy(structs) ==
    \E k \in DOMAIN structs :
        /\ ParentOf(structs[k]) # 0
        /\ ParentOf(structs[k]) \notin RecordIds(structs)

\* tree.nodes: the ids in list order; parent: id -> parent id (0 for the root)
GetStructuresTree(structs) ==
    [nodes  |-> [k \in DOMAIN structs |-> structs[k].id],
     parent |-> [n \in RecordIds(structs) |->
                   ParentOf(CHOOSE s \in Range(structs) : s.id = n)]]

RECURSIVE IsAncestorOrSelf(_, _, _)
IsAncestorOrSelf(t, a, n) ==
    IF n = a THEN TRUE
    ELSE IF n = 0 THEN FALSE
    ELSE IsAncestorOrSelf(t, a, t.parent[n])

\* tree.subtree(node).nodes: the node and all its descendants
Descendants(t, a) == {n \in DOMAIN t.parent : IsAncestorOrSelf(t, a, n)}

\* ------------------------------------------------------------ label set
\* numpy astype(np.int32) of a stored value: the low 32 bits, two's complement
AsInt32(v) == IF v.lo > Int32Max THEN v.lo - Int32Max - Int32Max - 2 ELSE v.lo

\* labels = np.unique(annotated_volume).astype(np.int32)
Labels(vol) == {AsInt32(vol[x]) : x \in Voxels}

\* key in labels
IsLabel(key, labs) == key \in labs

\* set(np.unique(annotation)): the stored values themselves
PresentIds(vol) == {vol[x] : x \in Voxels}

\* the LabelSet of the data model: distinct non-zero values that occur
LabelSet(vol) == {vol[x] : x \in Voxels} \ {Background}

\* ------------------------------------------------------ create_region_mesh
\* (the id of another region handed over as the root id)
WrongRootIdArg == Min(ChildIds)

\* the root id handed to create_region_mesh (METADATA.root_id, ROOT_ID)
RootIdArg == ROOT_ID

\* Mask Aggregator (4.3)
Aggregate(node, t, labs, vol, root_id) ==
    IF node = root_id
    THEN {x \in Voxels : vol[x] # Background}
    ELSE IF Descendants(t, node) \cap labs = {}
    THEN {}
    ELSE {x \in Voxels : \E d \in Descendants(t, node) : vol[x] = IdVal(d)}

\* size in bytes of the .obj file written for a mask
ObjBytes(mask) == BytesPerVoxel * Cardinality(mask)

\* Writer (4.6): the file of a node, written in one piece
WriteMesh(fs, node, mask, now) ==
    [fs EXCEPT ![MeshPath(node)] =
        [exists |-> TRUE, size |-> ObjBytes(mask), mtime |-> now,
         data |-> mask]]

\* What create_region_mesh does for a node up to the write: skip a node whose
\* file exists (4.6), aggregate the mask (4.3), EmptyRegion for an empty mask
\* (4.4), IOFailure when the file cannot be written (7)
RegionMeshPlan(fs, node, t, labs, vol, root_id, failing) ==
    LET mask == Aggregate(node, t, labs, vol, root_id)
    IN  IF fs[MeshPath(node)].exists
        THEN [result |-> "skipped", mask |-> {}]
        ELSE IF mask = {}
        THEN [result |-> "empty", mask |-> mask]
        ELSE IF node \in failing
        THEN [result |-> "io_failure", mask |-> mask]
        ELSE [result |-> "written", mask |-> mask]

\* create_region_mesh for one node, start to end
CreateRegionMesh(fs, node, t, labs, vol, root_id, now, failing) ==
    LET plan == RegionMeshPlan(fs, node, t, labs, vol, root_id, failing)
    IN  [files |-> IF plan.result = "written"
                   THEN WriteMesh(fs, node, plan.mask, now)
                   ELSE fs,
         result |-> plan.result, mask |-> plan.mask]

\* ---------------------------------------------------------- catalog pass
\* (a file of exactly 512 bytes taken as too small)
TooSmallInclusive(size) == size <= MinObjBytes

\* mesh_path.stat().st_size < 512
TooSmall(size) == size < MinObjBytes

\* One iteration of "for s in structures" (Create meshes dict)
CatalogEntry(fs, s) ==
    LET mesh_path == MeshPath(s.id)
    IN  IF ~fs[mesh_path].exists THEN "missing"
        ELSE IF TooSmall(fs[mesh_path].size) THEN "too_small"
        ELSE "kept"

Put(d, k, v) == [x \in DOMAIN d \cup {k} |-> IF x = k THEN v ELSE d[x]]

\* -------------------------------- filter_structures_not_present_in_annotation
\* s["id"] in present_ids
Keep(s, present_ids) == IdVal(s.id) \in present_ids

FilterStructuresNotPresentInAnnotation(structs, annotation) ==
    LET present_ids == PresentIds(annotation)
    IN  SelectSeq(structs, LAMBDA s : Keep(s, present_ids))

\* ------------------------------------------------------------------ state
VARIABLES
    structure_info,    \* what retrieve_structure_information returns
    annotated_volume,  \* the annotation volume
    io_failing,        \* ids whose mesh file cannot be written
    files,             \* the meshes directory: path -> file
    files_at_start,    \* the directory as the current run found it
    run,               \* number of the current run (the clock of mtime)
    pc,                \* where the driver is
    i,                 \* loop index of the current pass
    structures,        \* the driver's structures variable
    tree,              \* get_structures_tree(structures)
    labels,            \* the labels array
    is_label,          \* node.data.is_label of the nodes that have their data
    outcome,           \* what create_region_mesh did per node ("pending")
    masks,             \* the mask aggregated for a node in this run
    meshes_dict,       \* the MeshCatalog being built / returned
    structures_with_mesh,
    report,            \* lines printed by the catalog pass
    packaged,          \* arguments of the wrapup_atlas_from_data calls so far
    first_meshes_dict, \* the catalog the first run returned
    \* flatten_structure_tree, statement by statement, with its lists as objects
    hierarchy,         \* the hierarchy being flattened
    caller_path,       \* the list the outermost caller passed (0: none, None)
    heap,              \* the list objects: reference -> contents
    stack,             \* the call stack of flatten_structure_tree
    flat_result,       \* the entries the outermost call returned
    flat_done,         \* the outermost call has returned
    \* the mesh loop run by a worker pool
    pool,              \* per worker: where it is, its node, what it holds
    lock,              \* the mutex of the diagnostics list (0: free)
    diagnostics,       \* the shared list of <<node id, result>>, as a bag
    writers,           \* per path, the nodes that have written it
    \* the loops of the two __main__ blocks
    order,             \* the resolutions in the order the loop visits them
    on_disk,           \* the downloaded annotation files
    age,               \* demba: the age of the outer loop (0: no age loop)
    visit,             \* index in order of the current iteration
    reference_volume,  \* the file the driver's reference_volume came from
    annotation_source, \* the file annotated_volume came from
    additional_references,
    catalog,           \* the driver's meshes_dict between iterations
    mesh_calls,        \* arguments of the retrieve_or_construct_meshes calls
    wrapup_calls,      \* arguments of the wrapup_atlas_from_data calls
    error              \* the exception that ended the run ("": none)

mainVars == <<structure_info, annotated_volume, io_failing, files,
              files_at_start, run, pc, i, structures, tree, labels, is_label,
              outcome, masks, meshes_dict, structures_with_mesh, report,
              packaged, first_meshes_dict>>

flatVars == <<hierarchy, caller_path, heap, stack, flat_result, flat_done>>

poolVars == <<pool, lock, diagnostics, writers>>

loopVars == <<order, on_disk, age, visit, reference_volume, annotation_source,
              additional_references, catalog, mesh_calls, wrapup_calls, error>>

vars == <<mainVars, flatVars, poolVars, loopVars>>

Workers == 1..NumWorkers
IdleWorker == [at |-> "idle", node |-> 0, result |-> "", mask |-> {},
               seen |-> EmptyBag]

inputs == <<structure_info, annotated_volume, io_failing>>

NoTree == [nodes |-> <<>>, parent |-> <<>>]

StartOfRun ==
    /\ pc = "start"
    /\ i = 1
    /\ structures = structure_info
    /\ tree = NoTree
    /\ labels = {}
    /\ is_label = <<>>
    /\ outcome = [n \in NodeIds |-> "pending"]
    /\ masks = [n \in NodeIds |-> {}]
    /\ meshes_dict = <<>>
    /\ structures_with_mesh = <<>>
    /\ report = <<>>

\* flatten_structure_tree is not running
FlatIdle ==
    /\ hierarchy = <<>>
    /\ caller_path = 0
    /\ heap = <<>>
    /\ stack = <<>>
    /\ flat_result = <<>>
    /\ flat_done = FALSE

\* no worker pool is running
PoolIdle ==
    /\ pool = [w \in Workers |-> IdleWorker]
    /\ lock = 0
    /\ diagnostics = EmptyBag
    /\ writers = [p \in Paths |-> {}]

\* meshes_dict = None (demba line 281); in allen, the name not yet bound
NoCatalog == [built |-> FALSE, root |-> 0, dict |-> <<>>]
\* no file loaded
NoSource == [age |-> 0, name |-> ""]
\* a name the script has not assigned yet
Unbound == [bound |-> FALSE, refs |-> <<>>]

\* neither __main__ loop is running
LoopIdle ==
    /\ order = <<>>
    /\ on_disk = <<>>
    /\ age = 0
    /\ visit = 1
    /\ reference_volume = NoSource
    /\ annotation_source = NoSource
    /\ additional_references = Unbound
    /\ catalog = NoCatalog
    /\ mesh_calls = <<>>
    /\ wrapup_calls = <<>>
    /\ error = ""

Init ==
    /\ FlatIdle
    /\ PoolIdle
    /\ LoopIdle
    /\ structure_info \in StructureLists
    /\ annotated_volume \in AnnotationVolumes
    /\ io_failing \in {{}} \cup {{n} : n \in NodeIds}
    /\ files \in InitialDirs
    /\ files_at_start = files
    /\ run = 1
    /\ packaged = <<>>
    /\ first_meshes_dict = <<>>
    /\ StartOfRun

\* ---------------------------------------------------------------- actions
\* lines 200-203: mkdir, get_structures_tree, np.unique
BuildTree ==
    /\ pc = "start"
    /\ IF MalformedHierarchy(structures)
       THEN /\ pc' = "halted"
            /\ UNCHANGED <<tree, labels>>
       ELSE /\ tree' = GetStructuresTree(structures)
            /\ labels' = Labels(annotated_volume)
            /\ pc' = "label"
    /\ i' = 1
    /\ files' = MakeMeshesDir(files)
    /\ UNCHANGED <<flatVars, poolVars, loopVars>>
    /\ UNCHANGED <<inputs, files_at_start, run, structures, is_label,
                   outcome, masks, meshes_dict, structures_with_mesh, report,
                   packaged, first_meshes_dict>>

\* lines 204-210: one iteration of the labelling pass
LabelNode ==
    /\ pc = "label"
    /\ LET key == tree.nodes[i]
       IN  is_label' = Put(is_label, key, IsLabel(key, labels))
    /\ IF i = Len(tree.nodes)
       THEN pc' = "mesh" /\ i' = 1
       ELSE pc' = pc /\ i' = i + 1
    /\ UNCHANGED <<flatVars, poolVars, loopVars>>
    /\ UNCHANGED <<inputs, files, files_at_start, run, structures, tree, labels,
                   outcome, masks, meshes_dict, structures_with_mesh, report,
                   packaged, first_meshes_dict>>

\* (a loop that stops at the first node without a mesh)
AfterNodeStopOnFailure(k, n, r) ==
    IF r \in {"empty", "io_failure"} \/ k = n THEN n + 1 ELSE k + 1

\* where the mesh loop goes after node k of n, whose create_region_mesh
\* returned r: on to the next node, whatever r is
AfterNode(k, n, r) == IF k = n THEN n + 1 ELSE k + 1

\* lines 216-233: one iteration of the mesh-creation loop
MeshNode ==
    /\ pc = "mesh"
    /\ LET node == tree.nodes[i]
           r == CreateRegionMesh(files, node, tree, labels, annotated_volume,
                                 RootIdArg, run, io_failing)
           next == AfterNode(i, Len(tree.nodes), r.result)
       IN  /\ files' = r.files
           /\ outcome' = [outcome EXCEPT ![node] = r.result]
           /\ masks' = [masks EXCEPT ![node] = r.mask]
           /\ IF next > Len(tree.nodes)
              THEN pc' = "catalog" /\ i' = 1
              ELSE pc' = pc /\ i' = next
    /\ UNCHANGED <<flatVars, poolVars, loopVars>>
    /\ UNCHANGED <<inputs, files_at_start, run, structures, tree, labels,
                   is_label, meshes_dict, structures_with_mesh, report,
                   packaged, first_meshes_dict>>

\* lines 241-256: one iteration of the catalog pass
CatalogStructure ==
    /\ pc = "catalog"
    /\ LET s == structures[i]
           e == CatalogEntry(files, s)
       IN  IF e = "kept"
           THEN /\ structures_with_mesh' = Append(structures_with_mesh, s)
                /\ meshes_dict' = Put(meshes_dict, s.id, MeshPath(s.id))
                /\ report' = report
           ELSE /\ report' = Append(report, <<e, s.id>>)
                /\ UNCHANGED <<structures_with_mesh, meshes_dict>>
    /\ IF i = Len(structures)
       THEN pc' = "returned" /\ i' = 1
       ELSE pc' = pc /\ i' = i + 1
    /\ UNCHANGED <<flatVars, poolVars, loopVars>>
    /\ UNCHANGED <<inputs, files, files_at_start, run, structures, tree, labels,
                   is_label, outcome, masks, packaged, first_meshes_dict>>

\* lines 304-306: structures = filter_structures_not_present_in_annotation(..)
FilterStructures ==
    /\ pc = "returned"
    /\ structures' = FilterStructuresNotPresentInAnnotation(structures,
                                                          annotated_volume)
    /\ first_meshes_dict' = IF run = 1 THEN meshes_dict ELSE first_meshes_dict
    /\ pc' = "wrapup"
    /\ UNCHANGED <<flatVars, poolVars, loopVars>>
    /\ UNCHANGED <<inputs, files, files_at_start, run, i, tree, labels,
                   is_label, outcome, masks, meshes_dict, structures_with_mesh,
                   report, packaged>>

\* lines 308-327: wrapup_atlas_from_data(structures_list=.., meshes_dict=..)
Wrapup ==
    /\ pc = "wrapup"
    /\ packaged' = Append(packaged, [structures_list |-> structures,
                                     meshes_dict |-> meshes_dict])
    /\ pc' = "done"
    /\ UNCHANGED <<flatVars, poolVars, loopVars>>
    /\ UNCHANGED <<inputs, files, files_at_start, run, i, structures, tree,
                   labels, is_label, outcome, masks, meshes_dict,
                   structures_with_mesh, report, first_meshes_dict>>

\* the script is started again over the same working directory
Rerun ==
    /\ pc = "done"
    /\ run < MaxRuns
    /\ run' = run + 1
    /\ files_at_start' = files
    /\ pc' = "start"
    /\ i' = 1
    /\ structures' = structure_info
    /\ tree' = NoTree
    /\ labels' = {}
    /\ is_label' = <<>>
    /\ outcome' = [n \in NodeIds |-> "pending"]
    /\ masks' = [n \in NodeIds |-> {}]
    /\ meshes_dict' = <<>>
    /\ structures_with_mesh' = <<>>
    /\ report' = <<>>
    /\ packaged' = <<>>
    /\ UNCHANGED <<flatVars, poolVars, loopVars>>
    /\ UNCHANGED <<inputs, files, first_meshes_dict>>

Next ==
    \/ BuildTree
    \/ LabelNode
    \/ MeshNode
    \/ CatalogStructure
    \/ FilterStructures
    \/ Wrapup
    \/ Rerun

Spec == Init /\ [][Next]_vars

\* ------------------------------- flatten_structure_tree, with list objects
\* Python lists are objects: structure_id_path, current_path and the path
\* stored in an entry are references into heap.

\* (the caller's list extended in place: structure_id_path.append(..))
PathAppendedInPlace(h, ref, id) ==
    [heap |-> [h EXCEPT ![ref] = Append(@, id)], ref |-> ref]

\* structure_id_path + [node["id"]]: a new list, the operand untouched
PathPlus(h, ref, id) ==
    [heap |-> Append(h, Append(h[ref], id)), ref |-> Len(h) + 1]

Frame(node, path) ==
    [node |-> node, path |-> path, current_path |-> 0, entries |-> <<>>,
     kid |-> 1, at |-> "default", arg_seen |-> <<>>]

Top == stack[Len(stack)]
SetTop(f) == [stack EXCEPT ![Len(stack)] = f]

\* the main pipeline is not running
MainIdle ==
    /\ structure_info = <<>>
    /\ annotated_volume = [x \in Voxels |-> Background]
    /\ io_failing = {}
    /\ files = [p \in Paths |-> NoFile]
    /\ files_at_start = files
    /\ run = 1
    /\ packaged = <<>>
    /\ first_meshes_dict = <<>>
    /\ StartOfRun

\* flatten_structure_tree(root) as retrieve_structure_information calls it
\* (no path argument), or with an empty list of the caller's
FlattenInit ==
    /\ MainIdle
    /\ PoolIdle
    /\ LoopIdle
    /\ hierarchy \in Hierarchies
    /\ \E given \in BOOLEAN :
          /\ caller_path = IF given THEN 1 ELSE 0
          /\ heap = IF given THEN << <<>> >> ELSE <<>>
          /\ stack = <<Frame(ROOT_ID, caller_path)>>
    /\ flat_result = <<>>
    /\ flat_done = FALSE

\* lines 150-151: if structure_id_path is None: structure_id_path = []
FlattenDefaultPath ==
    /\ stack # <<>> /\ Top.at = "default"
    /\ IF Top.path = 0
       THEN /\ heap' = Append(heap, <<>>)
            /\ stack' = SetTop([Top EXCEPT !.path = Len(heap) + 1,
                                           !.arg_seen = <<>>,
                                           !.at = "path"])
       ELSE /\ heap' = heap
            /\ stack' = SetTop([Top EXCEPT !.arg_seen = heap[Top.path],
                                           !.at = "path"])
    /\ UNCHANGED <<mainVars, poolVars, loopVars, hierarchy, caller_path, flat_result, flat_done>>

\* line 154: current_path = structure_id_path + [node["id"]]
FlattenCurrentPath ==
    /\ stack # <<>> /\ Top.at = "path"
    /\ LET r == PathPlus(heap, Top.path, Top.node)
       IN  /\ heap' = r.heap
           /\ stack' = SetTop([Top EXCEPT !.current_path = r.ref,
                                          !.at = "entry"])
    /\ UNCHANGED <<mainVars, poolVars, loopVars, hierarchy, caller_path, flat_result, flat_done>>

\* lines 157-166: entry = {...}; entries = [entry]
FlattenEntry ==
    /\ stack # <<>> /\ Top.at = "entry"
    /\ stack' = SetTop([Top EXCEPT
                          !.entries = <<[id |-> Top.node,
                                         structure_id_path |-> Top.current_path]>>,
                          !.at = "children"])
    /\ UNCHANGED <<mainVars, poolVars, loopVars, hierarchy, caller_path, heap, flat_result,
                   flat_done>>

\* lines 169-171: the call flatten_structure_tree(child, current_path)
FlattenCallChild ==
    /\ stack # <<>> /\ Top.at = "children"
    /\ Top.kid <= Len(Children(hierarchy, Top.node))
    /\ stack' = Append(stack, Frame(Children(hierarchy, Top.node)[Top.kid],
                                    Top.current_path))
    /\ UNCHANGED <<mainVars, poolVars, loopVars, hierarchy, caller_path, heap, flat_result,
                   flat_done>>

\* line 173: return entries; line 171: the caller's entries.extend(..)
FlattenReturn ==
    /\ stack # <<>> /\ Top.at = "children"
    /\ Top.kid > Len(Children(hierarchy, Top.node))
    /\ IF Len(stack) = 1
       THEN /\ flat_result' = Top.entries
            /\ flat_done' = TRUE
            /\ stack' = <<>>
       ELSE LET caller == stack[Len(stack) - 1]
            IN  /\ stack' = [SubSeq(stack, 1, Len(stack) - 1) EXCEPT
                               ![Len(stack) - 1] =
                                   [caller EXCEPT
                                      !.entries = caller.entries \o Top.entries,
                                      !.kid = caller.kid + 1]]
                /\ UNCHANGED <<flat_result, flat_done>>
    /\ UNCHANGED <<mainVars, poolVars, loopVars, hierarchy, caller_path, heap>>

FlattenNext ==
    \/ FlattenDefaultPath
    \/ FlattenCurrentPath
    \/ FlattenEntry
    \/ FlattenCallChild
    \/ FlattenReturn

SpecFlatten == FlattenInit /\ [][FlattenNext]_vars

\* --------------------------------------- the mesh loop on a worker pool (5)
\* The nodes of tree.nodes are handed, in order, to the workers of a pool;
\* a worker runs create_region_mesh for its node and then appends the node's
\* result to the shared diagnostics list under the list's mutex.  The
\* catalog pass runs after the pool has been joined.

\* (a list appended to without taking its mutex)
AlwaysFree(l) == TRUE

\* the mutex can be taken
LockFree(l) == l = 0

\* The pool is run on the hierarchies that hold every region, either all
\* directly under the root or one below the other.
PoolHierarchies ==
    {par \in Hierarchies :
        /\ DOMAIN par = ChildIds
        /\ \/ \A c \in ChildIds : par[c] = ROOT_ID
           \/ \A c \in ChildIds : par[c] = IF c = 1 THEN ROOT_ID ELSE c - 1}

PoolInit ==
    /\ FlatIdle
    /\ PoolIdle
    /\ LoopIdle
    /\ structure_info \in {RetrieveStructureInformation(par) :
                              par \in PoolHierarchies}
    /\ annotated_volume \in AnnotationVolumes
    /\ io_failing \in {{}} \cup {{n} : n \in NodeIds}
    /\ files \in InitialDirs
    /\ files_at_start = files
    /\ run = 1
    /\ packaged = <<>>
    /\ first_meshes_dict = <<>>
    /\ StartOfRun

poolRest == <<inputs, files_at_start, run, structures, tree, labels, is_label,
              meshes_dict, structures_with_mesh, report, packaged,
              first_meshes_dict>>

\* The first idle worker takes the next node of tree.nodes and runs
\* create_region_mesh up to the write: existing file, mask, empty region
WorkerCheck(w) ==
    /\ pc = "mesh"
    /\ i <= Len(tree.nodes)
    /\ pool[w].at = "idle"
    /\ \A v \in Workers : v < w => pool[v].at # "idle"
    /\ LET node == tree.nodes[i]
           plan == RegionMeshPlan(files, node, tree, labels,
                                  annotated_volume, RootIdArg, io_failing)
       IN  /\ pool' = [pool EXCEPT ![w] =
                          [IdleWorker EXCEPT
                             !.node = node,
                             !.result = plan.result,
                             !.mask = plan.mask,
                             !.at = IF plan.result = "written"
                                    THEN "write" ELSE "acquire"]]
           /\ masks' = [masks EXCEPT ![node] = plan.mask]
    /\ i' = i + 1
    /\ UNCHANGED <<poolRest, flatVars, loopVars, pc, files, outcome, lock,
                   diagnostics, writers>>

\* create_region_mesh writes the node's file
WorkerWrite(w) ==
    /\ pool[w].at = "write"
    /\ files' = WriteMesh(files, pool[w].node, pool[w].mask, run)
    /\ writers' = [writers EXCEPT ![MeshPath(pool[w].node)] =
                                      @ \cup {pool[w].node}]
    /\ pool' = [pool EXCEPT ![w].at = "acquire"]
    /\ UNCHANGED <<poolRest, flatVars, loopVars, pc, i, outcome, masks, lock,
                   diagnostics>>

\* the worker takes the mutex of the diagnostics list and reads the list
\* (append, first half)
WorkerAcquire(w) ==
    /\ pool[w].at = "acquire"
    /\ LockFree(lock)
    /\ lock' = w
    /\ pool' = [pool EXCEPT ![w].seen = diagnostics, ![w].at = "append"]
    /\ UNCHANGED <<poolRest, flatVars, loopVars, pc, i, files, outcome, masks,
                   diagnostics, writers>>

\* append, second half: the list with the new entry is stored, the mutex
\* released, and the worker is idle again
WorkerAppend(w) ==
    /\ pool[w].at = "append"
    /\ diagnostics' = pool[w].seen
                        (+) SetToBag({<<pool[w].node, pool[w].result>>})
    /\ outcome' = [outcome EXCEPT ![pool[w].node] = pool[w].result]
    /\ lock' = 0
    /\ pool' = [pool EXCEPT ![w] = IdleWorker]
    /\ UNCHANGED <<poolRest, flatVars, loopVars, pc, i, files, masks, writers>>

\* pool.close(); pool.join(): every node was handed out and every worker is
\* idle; the catalog pass follows
PoolJoin ==
    /\ pc = "mesh"
    /\ i > Len(tree.nodes)
    /\ \A w \in Workers : pool[w].at = "idle"
    /\ pc' = "catalog"
    /\ i' = 1
    /\ UNCHANGED <<poolRest, flatVars, loopVars, files, outcome, masks, poolVars>>

PoolNext ==
    \/ BuildTree
    \/ LabelNode
    \/ \E w \in Workers : WorkerCheck(w)
    \/ \E w \in Workers : WorkerWrite(w)
    \/ \E w \in Workers : WorkerAcquire(w)
    \/ \E w \in Workers : WorkerAppend(w)
    \/ PoolJoin
    \/ CatalogStructure

SpecPool == PoolInit /\ [][PoolNext]_vars

\* ------------------------------------------------- the sequential loops
\* lines 216-233 as one function: the mesh loop from node k on, over the
\* directory fs; acc gathers <<node id, result>>
RECURSIVE SequentialMeshLoop(_, _, _)
SequentialMeshLoop(fs, k, acc) ==
    IF k > Len(tree.nodes) THEN [files |-> fs, results |-> acc]
    ELSE LET r == CreateRegionMesh(fs, tree.nodes[k], tree, labels,
                                   annotated_volume, RootIdArg, run,
                                   io_failing)
         IN  SequentialMeshLoop(r.files,
                                AfterNode(k, Len(tree.nodes), r.result),
                                acc (+) SetToBag({<<tree.nodes[k], r.result>>}))

\* lines 241-256 as one function: the catalog pass from structure k on
RECURSIVE SequentialCatalogPass(_, _, _, _)
SequentialCatalogPass(fs, k, dict, printed) ==
    IF k > Len(structure_info)
    THEN [meshes_dict |-> dict, report |-> printed]
    ELSE LET s == structure_info[k]
             e == CatalogEntry(fs, s)
         IN  IF e = "kept"
             THEN SequentialCatalogPass(fs, k + 1,
                                        Put(dict, s.id, MeshPath(s.id)),
                                        printed)
             ELSE SequentialCatalogPass(fs, k + 1, dict,
                                        Append(printed, <<e, s.id>>))

\* ------------------------------------------------ the driver loops
\* Both __main__ blocks loop over resolutions.  The calls of
\* retrieve_or_construct_meshes they make are the actions above, entered at
\* pc = "start" and left at pc = "returned".

\* what a loop step outside retrieve_or_construct_meshes leaves alone
loopRest == <<structure_info, io_failing, files, files_at_start, run, i, tree,
              labels, is_label, outcome, masks, meshes_dict,
              structures_with_mesh, report, packaged, first_meshes_dict,
              flatVars, poolVars, order, on_disk>>

\* the script has started and called nothing yet
LoopStart ==
    /\ FlatIdle
    /\ PoolIdle
    /\ io_failing = {}
    /\ files = [p \in Paths |-> NoFile]
    /\ files_at_start = files
    /\ run = 1
    /\ packaged = <<>>
    /\ first_meshes_dict = <<>>
    /\ pc = "load"
    /\ i = 1
    /\ annotated_volume = <<>>
    /\ structures = <<>>
    /\ tree = NoTree
    /\ labels = {}
    /\ is_label = <<>>
    /\ outcome = [n \in NodeIds |-> "pending"]
    /\ masks = [n \in NodeIds |-> {}]
    /\ meshes_dict = <<>>
    /\ structures_with_mesh = <<>>
    /\ report = <<>>
    /\ visit = 1
    /\ reference_volume = NoSource
    /\ annotation_source = NoSource
    /\ additional_references = Unbound
    /\ catalog = NoCatalog
    /\ mesh_calls = <<>>
    /\ wrapup_calls = <<>>
    /\ error = ""

\* annotation volumes whose values are all labels of the atlas
LoopVolumes == {v \in AnnotationVolumes : \A x \in Voxels : v[x] # ForeignVal}

Reorderings(s) ==
    {[j \in DOMAIN s |-> s[f[j]]] :
        f \in {g \in [DOMAIN s -> DOMAIN s] :
                 \A a, b \in DOMAIN s : a # b => g[a] # g[b]}}

\* (resolution,) * 3
Isotropic(r) == <<r, r, r>>

\* ------------------------------------------------------- demba_dev_mouse
Ages == FirstAge..(FirstAge + NumAges - 1)

\* lines 60-64, as a mapping
RESOLUTION_TO_MODALITIES ==
    [r \in {25, 10, 20} |->
        IF r = 25 THEN <<"MRI", "LSFM">>
        ELSE IF r = 10 THEN <<"ALLEN_STPT">> ELSE <<"STPT">>]

\* lines 60-64: the order in which .items() yields the resolutions
DictOrder == <<25, 10, 20>>

\* The orders the table could be written in: the check of lines 298-306 is
\* there for a table that does not start with 25.
Orders == Reorderings(DictOrder)

\* retrieve_reference_and_annotation: the segmentation file of a modality
SegmentationFile(modality) ==
    IF modality = "ALLEN_STPT" THEN "10um" ELSE "20um"

\* the files a reference and an annotation are loaded from
ReferenceFile(a, modality) == [age |-> a, name |-> modality]
AnnotationFile(a, modality) == [age |-> a, name |-> SegmentationFile(modality)]

\* retrieve_additional_references(bg_root_dir, age, modalities)
RetrieveAdditionalReferences(a, modalities) ==
    [bound |-> TRUE,
     refs |-> [m \in Range(modalities) |-> ReferenceFile(a, m)]]

DembaInit ==
    /\ LoopStart
    /\ structure_info \in StructureLists
    /\ order \in Orders
    /\ on_disk \in [Ages -> LoopVolumes]
    /\ age = FirstAge

\* lines 286-297: the loads at the head of an iteration.  The voxels are those
\* of the age's segmentation; which file they were read from is kept beside.
DembaLoad ==
    /\ pc = "load"
    /\ LET modalities == RESOLUTION_TO_MODALITIES[order[visit]]
       IN  /\ reference_volume' = ReferenceFile(age, modalities[1])
           /\ annotation_source' = AnnotationFile(age, modalities[1])
           /\ annotated_volume' = on_disk[age]
           /\ additional_references' =
                  IF Len(modalities) > 1
                  THEN RetrieveAdditionalReferences(age, Tail(modalities))
                  ELSE additional_references
    /\ structures' = structure_info
    /\ pc' = "check"
    /\ UNCHANGED <<loopRest, age, visit, catalog, mesh_calls, wrapup_calls,
                   error>>

\* lines 298-306: raise of a str object, which Python answers with a TypeError
DembaWrongOrder ==
    /\ pc = "check"
    /\ ~catalog.built
    /\ order[visit] # MeshResolution
    /\ pc' = "error"
    /\ error' = "TypeError"
    /\ UNCHANGED <<loopRest, annotated_volume, structures, age, visit,
                   reference_volume, annotation_source, additional_references,
                   catalog, mesh_calls, wrapup_calls>>

\* lines 298, 307-309: meshes_dict is None, so retrieve_or_construct_meshes is
\* called with the volume just loaded and the directory of this age
DembaCallMeshes ==
    /\ pc = "check"
    /\ ~catalog.built
    /\ order[visit] = MeshResolution
    /\ mesh_calls' = Append(mesh_calls,
                            [age |-> age, resolution |-> order[visit],
                             annotation |-> annotation_source,
                             voxels |-> annotated_volume, root |-> age])
    /\ pc' = "start"
    /\ UNCHANGED <<loopRest, annotated_volume, structures, age, visit,
                   reference_volume, annotation_source, additional_references,
                   catalog, wrapup_calls, error>>

\* line 298: meshes_dict is not None, nothing is built
DembaHaveMeshes ==
    /\ pc = "check"
    /\ catalog.built
    /\ pc' = "wrapup"
    /\ UNCHANGED <<loopRest, annotated_volume, structures, age, visit,
                   reference_volume, annotation_source, additional_references,
                   catalog, mesh_calls, wrapup_calls, error>>

\* line 307: meshes_dict = <what retrieve_or_construct_meshes returned>; the
\* paths it holds lie under the directory of the age it was built for
DembaReturn ==
    /\ pc = "returned"
    /\ catalog' = [built |-> TRUE, root |-> Last(mesh_calls).root,
                   dict |-> meshes_dict]
    /\ pc' = "wrapup"
    /\ UNCHANGED <<loopRest, annotated_volume, structures, age, visit,
                   reference_volume, annotation_source, additional_references,
                   mesh_calls, wrapup_calls, error>>

\* lines 310-330: wrapup_atlas_from_data(..), then on to the next resolution,
\* and after the last one to the next age
DembaWrapup ==
    /\ pc = "wrapup"
    /\ IF ~additional_references.bound
       THEN /\ pc' = "error"
            /\ error' = "NameError"
            /\ UNCHANGED <<wrapup_calls, visit, age>>
       ELSE /\ wrapup_calls' =
                  Append(wrapup_calls,
                         [age |-> age, visited |-> order[visit],
                          resolution |-> Isotropic(order[visit]),
                          reference_stack |-> reference_volume,
                          annotation_stack |-> [source |-> annotation_source,
                                                voxels |-> annotated_volume],
                          structures_list |-> structures,
                          meshes_dict |-> catalog.dict,
                          meshes_root |-> catalog.root,
                          additional_references |-> additional_references.refs])
            /\ error' = error
            /\ IF visit < Len(order)
               THEN visit' = visit + 1 /\ age' = age /\ pc' = "load"
               ELSE IF age < FirstAge + NumAges - 1
               THEN visit' = 1 /\ age' = age + 1 /\ pc' = "load"
               ELSE visit' = visit /\ age' = age /\ pc' = "done"
    /\ UNCHANGED <<loopRest, annotated_volume, structures, reference_volume,
                   annotation_source, additional_references, catalog,
                   mesh_calls>>

DembaNext ==
    \/ DembaLoad
    \/ DembaWrongOrder
    \/ DembaCallMeshes
    \/ DembaHaveMeshes
    \/ BuildTree
    \/ LabelNode
    \/ MeshNode
    \/ CatalogStructure
    \/ DembaReturn
    \/ DembaWrapup

SpecDemba == DembaInit /\ [][DembaNext]_vars

\* ------------------------------------- allen_bbp_ccfv3a_entire_mouse_brain
\* for resolution in [25, 10]
AllenResolutions == <<25, 10>>

\* the part of a file name that stands for a resolution
ResolutionName(r) == IF r = 25 THEN "25" ELSE "10"

\* arav3a_bbp_nisslCOR_{resolution}.nrrd, annotv3a_bbp_{resolution}.nrrd
AllenReferenceFile(r) == [age |-> 0, name |-> ResolutionName(r)]
AllenAnnotationFile(r) == [age |-> 0, name |-> ResolutionName(r)]

\* lines 104-109: at 10 um the file holds one hemisphere and the volume is
\* completed by its mirror image, so that every voxel of the file occurs twice
Mirror(vol) == [j \in 1..(2 * Len(vol)) |-> vol[(j + 1) \div 2]]

\* retrieve_reference_and_annotation(download_path, resolution)[1]
AllenAnnotation(disk, r) == IF r = 10 THEN Mirror(disk[r]) ELSE disk[r]

\* retrieve_additional_references(download_path, resolution): the population
\* average, zoomed by 0.4 at 25 um
AllenAdditionalReferences(r) ==
    [bound |-> TRUE,
     refs |-> [n \in {"population_average_nissl"} |->
                 [age |-> 0,
                  name |-> IF r = 25 THEN "nissl_average_full zoomed 0.4"
                           ELSE "nissl_average_full"]]]

AllenInit ==
    /\ LoopStart
    /\ structure_info \in StructureLists
    /\ order = AllenResolutions
    /\ on_disk \in [Range(AllenResolutions) -> LoopVolumes]
    /\ age = 0

\* lines 291-303: the loads at the head of an iteration and, at 25 um,
\* retrieve_structure_information and the call of retrieve_or_construct_meshes
AllenLoad ==
    /\ pc = "load"
    /\ LET resolution == order[visit]
       IN  /\ reference_volume' = AllenReferenceFile(resolution)
           /\ annotation_source' = AllenAnnotationFile(resolution)
           /\ annotated_volume' = AllenAnnotation(on_disk, resolution)
           /\ additional_references' = AllenAdditionalReferences(resolution)
           /\ IF resolution = 25
              THEN /\ structures' = structure_info
                   /\ mesh_calls' =
                          Append(mesh_calls,
                                 [age |-> 0, resolution |-> resolution,
                                  annotation |-> AllenAnnotationFile(resolution),
                                  voxels |-> AllenAnnotation(on_disk, resolution),
                                  root |-> 0])
                   /\ pc' = "start"
              ELSE /\ UNCHANGED <<structures, mesh_calls>>
                   /\ pc' = "wrapup"
    /\ UNCHANGED <<loopRest, age, visit, catalog, wrapup_calls, error>>

\* lines 308-327: wrapup_atlas_from_data(..), then on to the next resolution
AllenWrapup ==
    /\ pc = "wrapup"
    /\ wrapup_calls' =
           Append(wrapup_calls,
                  [age |-> 0, visited |-> order[visit],
                   resolution |-> Isotropic(METADATA_resolution),
                   reference_stack |-> reference_volume,
                   annotation_stack |-> [source |-> annotation_source,
                                         voxels |-> annotated_volume],
                   structures_list |-> structures,
                   meshes_dict |-> meshes_dict,
                   meshes_root |-> 0,
                   additional_references |-> additional_references.refs])
    /\ IF visit < Len(order)
       THEN visit' = visit + 1 /\ pc' = "load"
       ELSE visit' = visit /\ pc' = "done"
    /\ UNCHANGED <<loopRest, annotated_volume, structures, age,
                   reference_volume, annotation_source, additional_references,
                   catalog, mesh_calls, error>>

AllenNext ==
    \/ AllenLoad
    \/ BuildTree
    \/ LabelNode
    \/ MeshNode
    \/ CatalogStructure
    \/ FilterStructures
    \/ AllenWrapup

SpecAllen == AllenInit /\ [][AllenNext]_vars

\* ------------------------------------------------------------ properties
\* retrieve_or_construct_meshes has returned its dictionary
Returned == pc \in {"returned", "wrapup", "done"}
TreeBuilt == pc \notin {"start", "halted"}
TreeNodes == Range(tree.nodes)
FileOf(id) == files[MeshPath(id)]

\* C1 as claimed: when retrieve_or_construct_meshes returns, a structure's id
\* is a key of the catalog iff its .obj file exists and is larger than 512
\* bytes; the value is that file's path; no other key is present.
C1_KeyIffFileLargerThanThreshold ==
    Returned =>
        /\ \A k \in DOMAIN structure_info :
              LET id == structure_info[k].id
              IN  /\ (id \in DOMAIN meshes_dict)
                        <=> (FileOf(id).exists /\ FileOf(id).size > MinObjBytes)
                  /\ id \in DOMAIN meshes_dict => meshes_dict[id] = MeshPath(id)
        /\ DOMAIN meshes_dict \subseteq RecordIds(structure_info)

\* C1 amended: when retrieve_or_construct_meshes returns, a structure's id is
\* a key of the catalog iff its .obj file exists and holds at least 512 bytes;
\* the value is that file's path; no other key is present.
C1_KeyIffFileAtLeastThreshold ==
    Returned =>
        /\ \A k \in DOMAIN structure_info :
              LET id == structure_info[k].id
              IN  /\ (id \in DOMAIN meshes_dict)
                        <=> (FileOf(id).exists /\ FileOf(id).size >= MinObjBytes)
                  /\ id \in DOMAIN meshes_dict => meshes_dict[id] = MeshPath(id)
        /\ DOMAIN meshes_dict \subseteq RecordIds(structure_info)

\* a returned catalog that keeps a file of exactly 512 bytes, leaves out a
\* smaller file and leaves out a structure that has no file
C1_Witness ==
    /\ Returned
    /\ \E id \in DOMAIN meshes_dict : FileOf(id).size = MinObjBytes
    /\ \E id \in RecordIds(structure_info) :
          FileOf(id).exists /\ id \notin DOMAIN meshes_dict
    /\ \E id \in RecordIds(structure_info) : ~FileOf(id).exists

\* C2: the structure list handed to the packaging routine holds exactly the
\* input records, in order and unmodified, whose id is a key of the catalog
\* and occurs as a label in the annotation volume; so every record of the
\* final list has a catalog entry.
C2_PackagedHaveMeshAndLabel ==
    \A k \in DOMAIN packaged :
        packaged[k].structures_list =
            SelectSeq(structure_info,
                      LAMBDA s : /\ s.id \in DOMAIN packaged[k].meshes_dict
                                 /\ IdVal(s.id) \in LabelSet(annotated_volume))

\* What the driver does hand over: the input records, in order and
\* unmodified, whose id occurs as a label in the annotation volume, whether
\* or not their mesh passed validation, with the catalog that was returned.
PackagedHaveLabel ==
    \A k \in DOMAIN packaged :
        /\ packaged[k].structures_list =
              SelectSeq(structure_info,
                        LAMBDA s : IdVal(s.id) \in LabelSet(annotated_volume))
        /\ packaged[k].meshes_dict = meshes_dict

\* a packaging call whose list lost an input record and keeps a record that
\* has no catalog entry
PackagedWithoutMesh ==
    /\ packaged # <<>>
    /\ Len(packaged[1].structures_list) < Len(structure_info)
    /\ \E k \in DOMAIN packaged[1].structures_list :
          packaged[1].structures_list[k].id \notin DOMAIN packaged[1].meshes_dict

\* a node that create_region_mesh left without a usable mesh
NodeFailed(n) ==
    \/ outcome[n] \in {"empty", "io_failure"}
    \/ outcome[n] = "written" /\ TooSmall(FileOf(n).size)

\* C3: a node's failure (empty region, write failure, degenerate mesh) never
\* aborts the run: the mesh loop goes on to every other node, the failed node
\* is absent from the catalog, the catalog pass runs over every structure,
\* and only a malformed ontology halts the pipeline.
C3_NodeFailuresDoNotAbort ==
    /\ pc = "halted" => MalformedHierarchy(structure_info)
    /\ pc = "mesh" => ENABLED MeshNode
    /\ pc = "catalog" => ENABLED CatalogStructure
    /\ pc = "catalog" \/ Returned =>
          \A n \in TreeNodes : outcome[n] # "pending"
    /\ Returned =>
          /\ \A n \in TreeNodes : NodeFailed(n) => n \notin DOMAIN meshes_dict
          /\ Len(report) + Len(structures_with_mesh) = Len(structure_info)

\* a run in which the first node's write failed, a later node was empty and
\* a node after both got its mesh into the catalog
C3_Witness ==
    /\ Returned
    /\ \E a, b, c \in DOMAIN tree.nodes :
          /\ a < c /\ b < c
          /\ outcome[tree.nodes[a]] = "io_failure"
          /\ outcome[tree.nodes[b]] = "empty"
          /\ outcome[tree.nodes[c]] = "written"
          /\ tree.nodes[c] \in DOMAIN meshes_dict

\* C4: a mesh file that exists when a run starts is left as it is (contents
\* and timestamp) by that run, however many runs there are, and a run over
\* the directory an earlier run left returns the first run's catalog.
C4_IdempotentSkip ==
    /\ \A p \in Paths : files_at_start[p].exists => files[p] = files_at_start[p]
    /\ run > 1 /\ Returned => meshes_dict = first_meshes_dict

\* a later run has skipped a node whose file the first run wrote, and that
\* node is in the catalog again
C4_Witness ==
    /\ run > 1 /\ pc = "done"
    /\ \E n \in TreeNodes :
          /\ outcome[n] = "skipped"
          /\ FileOf(n).mtime = 1
          /\ n \in DOMAIN meshes_dict

\* some id of the node's closure (own id and descendants) occurs in the volume
ClosureOccurs(n) ==
    \E d \in Descendants(tree, n) : IdVal(d) \in LabelSet(annotated_volume)

\* the proper ancestors of a node
Ancestors(n) == {a \in TreeNodes \ {n} : n \in Descendants(tree, a)}

MaskOf(n) == Aggregate(n, tree, labels, annotated_volume, RootIdArg)
MaskComputed(n) == outcome[n] \in {"empty", "io_failure", "written"}
NonZeroVoxels == {x \in Voxels : annotated_volume[x] # Background}

\* C6: for every node N and every descendant D of N, the root included, each
\* voxel of D's aggregated mask is in N's aggregated mask.
C6_MaskMonotoneUpTheTree ==
    TreeBuilt =>
        \A N \in TreeNodes : \A D \in Descendants(tree, N) :
            /\ MaskOf(D) \subseteq MaskOf(N)
            /\ MaskComputed(N) /\ MaskComputed(D) => masks[D] \subseteq masks[N]

\* masks were aggregated for the root, for a node below it and for a
\* descendant of that node whose non-empty mask is strictly smaller
C6_Witness ==
    /\ pc = "catalog"
    /\ MaskComputed(ROOT_ID)
    /\ \E N \in TreeNodes \ {ROOT_ID} : \E D \in Descendants(tree, N) \ {N} :
          /\ MaskComputed(N) /\ MaskComputed(D)
          /\ masks[D] # {} /\ masks[D] # masks[N]
          /\ masks[ROOT_ID] # {}

\* C7: the mask aggregated for the designated root id is exactly the set of
\* voxels with a non-zero label, whatever the volume holds.
C7_RootMaskIsNonZeroVolume ==
    TreeBuilt /\ ROOT_ID \in TreeNodes =>
        /\ MaskOf(ROOT_ID) = NonZeroVoxels
        /\ MaskComputed(ROOT_ID) => masks[ROOT_ID] = NonZeroVoxels

\* the root's mask was aggregated over a volume in which the root id never
\* occurs and which holds a label that is the id of no node and a background
C7_Witness ==
    /\ outcome[ROOT_ID] = "written"
    /\ IdVal(ROOT_ID) \notin LabelSet(annotated_volume)
    /\ ForeignVal \in LabelSet(annotated_volume)
    /\ NonZeroVoxels # Voxels

\* C10 as claimed: after the labelling pass is_label of a node is true iff the
\* node's id is one of the non-zero values occurring in the volume, and every
\* node has its flag before create_region_mesh is first called.
C10_IsLabelIffIdOccurs ==
    /\ pc = "mesh" \/ pc = "catalog" \/ Returned =>
          \A n \in TreeNodes :
              is_label[n] <=> IdVal(n) \in LabelSet(annotated_volume)
    /\ (\E n \in NodeIds : outcome[n] # "pending") =>
          TreeNodes \subseteq DOMAIN is_label

\* an entry with its path read from the heap
Emitted(e) == [id |-> e.id, structure_id_path |-> heap[e.structure_id_path]]

\* the outermost call returned what the recursive definition gives
FlattenAgrees ==
    flat_done =>
        [k \in DOMAIN flat_result |-> Emitted(flat_result[k])]
            = RetrieveStructureInformation(hierarchy)

\* C8: every emitted record's structure_id_path ends in the record's id and
\* is its parent's record's path followed by that id (the root's path is
\* [root id]); the path list a caller passed is never changed by the calls
\* below it.
C8_PathIsParentPathPlusId ==
    /\ \A k \in DOMAIN stack :
          stack[k].at # "default" => heap[stack[k].path] = stack[k].arg_seen
    /\ caller_path # 0 => heap[caller_path] = <<>>
    /\ flat_done =>
          \A k \in DOMAIN flat_result :
              LET e == Emitted(flat_result[k])
              IN  /\ e.structure_id_path # <<>>
                  /\ Last(e.structure_id_path) = e.id
                  /\ IF e.id = ROOT_ID
                     THEN e.structure_id_path = <<ROOT_ID>>
                     ELSE \E j \in DOMAIN flat_result :
                            /\ flat_result[j].id = hierarchy[e.id]
                            /\ e.structure_id_path =
                                  Emitted(flat_result[j]).structure_id_path
                                      \o <<e.id>>

\* a flattened hierarchy with a grandchild, called with a list of the caller's
C8_Witness ==
    /\ flat_done
    /\ caller_path # 0
    /\ \E k \in DOMAIN flat_result :
          Len(Emitted(flat_result[k]).structure_id_path) = 3

\* what the sequential loops give on the directory the run started from
SequentialMeshes == SequentialMeshLoop(files_at_start, 1, EmptyBag)
SequentialCatalog ==
    SequentialCatalogPass(SequentialMeshes.files, 1, <<>>, <<>>)

MeshCallsOfAge(a) == {m \in DOMAIN mesh_calls : mesh_calls[m].age = a}

CatalogBuiltOnce ==
    /\ Len(mesh_calls) <= 1
    /\ \A m \in DOMAIN mesh_calls :
          /\ mesh_calls[m].age = FirstAge
          /\ mesh_calls[m].resolution = MeshResolution
          /\ mesh_calls[m].voxels = on_disk[FirstAge]
    /\ \A j \in DOMAIN wrapup_calls :
          /\ mesh_calls # <<>>
          /\ wrapup_calls[j].meshes_root = FirstAge
          /\ wrapup_calls[j].meshes_dict = catalog.dict
    /\ error # "" => mesh_calls = <<>> /\ files = files_at_start

\* the table as the script has it: an age after the first is packaged with the
\* catalog built from the first age's volume, which differs from its own
PackagedWithCatalogOfOtherAge ==
    /\ order = DictOrder
    /\ \E j \in DOMAIN wrapup_calls :
          /\ wrapup_calls[j].age # wrapup_calls[j].meshes_root
          /\ wrapup_calls[j].meshes_dict # <<>>
          /\ on_disk[wrapup_calls[j].age] # on_disk[wrapup_calls[j].meshes_root]

\* a table that does not start with 25 stops the run at the first iteration
WrongOrderStops == error = "TypeError" /\ wrapup_calls = <<>>

\* ------------------------------------------------------------------- C12
\* the references of a resolution's modalities after the first, of age a
ReferencesAfterFirst(a, r) ==
    [m \in Range(Tail(RESOLUTION_TO_MODALITIES[r])) |-> ReferenceFile(a, m)]

\* C12 as claimed: in the demba driver every packaging call for (age,
\* resolution) receives as additional references exactly the references of
\* that resolution's modalities after the first one, loaded for that age: none
\* for a resolution with a single modality, and never a reference loaded in an
\* earlier iteration.
\* (The driver does not do this: see AdditionalReferencesOfLastLoad.)
C12_AdditionalReferencesOfIteration ==
    \A j \in DOMAIN wrapup_calls :
        LET c == wrapup_calls[j]
        IN  /\ c.additional_references = ReferencesAfterFirst(c.age, c.visited)
            /\ Len(RESOLUTION_TO_MODALITIES[c.visited]) = 1
               => c.additional_references = <<>>

\* What the driver does: additional_references is assigned only in an
\* iteration with more than one modality and keeps its value otherwise, so
\* every packaging call of an age receives what the 25 um iteration loaded.
AdditionalReferencesOfLastLoad ==
    \A j \in DOMAIN wrapup_calls :
        wrapup_calls[j].additional_references
            = ReferencesAfterFirst(wrapup_calls[j].age, MeshResolution)

\* the table as the script has it: a single-modality resolution is packaged
\* with the reference the 25 um iteration loaded
PackagedWithStaleReference ==
    /\ order = DictOrder
    /\ \E j \in DOMAIN wrapup_calls :
          /\ Len(RESOLUTION_TO_MODALITIES[wrapup_calls[j].visited]) = 1
          /\ wrapup_calls[j].additional_references # <<>>

\* ------------------------------------------------------------------- C13
\* the structure list and the catalog of the 25 um iteration, and the volumes
\* of the iteration itself, are what a packaging call of the allen loop gets
AllenCallsCarry(res) ==
    \A j \in DOMAIN wrapup_calls :
        LET c == wrapup_calls[j]
        IN  /\ c.resolution = res[c.visited]
            /\ c.reference_stack = AllenReferenceFile(c.visited)
            /\ c.annotation_stack = [source |-> AllenAnnotationFile(c.visited),
                                     voxels |-> AllenAnnotation(on_disk, c.visited)]
            /\ c.structures_list =
                   FilterStructuresNotPresentInAnnotation(structure_info,
                                                          on_disk[25])
            /\ c.meshes_dict = first_meshes_dict
            /\ c.meshes_dict = meshes_dict

\* C13 as claimed: in the allen driver the packaging call of the iteration at
\* resolution r receives the reference and annotation volumes loaded at r and
\* the resolution value (r, r, r), and both packaging calls receive the
\* structure list and the MeshCatalog of the r = 25 iteration, unchanged.
\* (The driver does not pass (r, r, r): see PackagedAtMetadataResolution.)
C13_PackagedAtLoopResolution ==
    AllenCallsCarry([r \in Range(AllenResolutions) |-> Isotropic(r)])

\* What the driver does: resolution=(METADATA.resolution,) * 3 in both calls
PackagedAtMetadataResolution ==
    AllenCallsCarry([r \in Range(AllenResolutions) |->
                        Isotropic(METADATA_resolution)])

\* the 10 um volumes have been packaged, with a non-empty catalog
PackagedTenMicron ==
    /\ Len(wrapup_calls) = 2
    /\ wrapup_calls[2].visited = 10
    /\ wrapup_calls[2].meshes_dict # <<>>
    /\ wrapup_calls[2].annotation_stack.voxels # wrapup_calls[1].annotation_stack.voxels
====
